---- MODULE Spec2Model ----
(***************************************************************************)
(* HostAgent of main.py: a group of fabric connections built from the      *)
(* environment (EC2_HOSTS, EC2_PEM_FILE), on which files are put or a      *)
(* command is run, host after host or through asyncio.gather over          *)
(* asyncio.to_thread, and which close() tears down.                        *)
(***************************************************************************)
EXTENDS Integers, Sequences, FiniteSets, TLC

\* ---------------------------------------------------------------- bounds
MaxHosts == 3        \* host addresses a host list may hold
MaxFiles == 2        \* files one upload call may be given
MaxWorkers == 2      \* threads of the event loop's default executor
MaxTasks == 6        \* awaitables one gather call may be handed
MaxCalls == 2        \* operation calls the client makes on one agent
MaxCloses == 2       \* close() calls the client makes on one agent

HostIds == 1..MaxHosts

\* self.hosts is None or a group of connections, kept in host-list order.
None == [none |-> TRUE, seq |-> <<>>]
Group(hs) == [none |-> FALSE, seq |-> hs]

\* A host list is h1..hn in configuration order.
HostLists == {[i \in 1..n |-> i] : n \in 0..MaxHosts}

\* A unit of work: <<host, file>>, file 0 standing for the command of a run.
Units == HostIds \X (0..MaxFiles)

NoErr == [type |-> "none", msg |-> "", units |-> {}]

VARIABLES
    scoped,         \* TRUE: the client is the upload / run command's with block
    hostsArg,       \* the hosts argument of HostAgent(...): None or a group
    EC2_HOSTS,      \* os.getenv('EC2_HOSTS') already split: a host list
    pem_exists,     \* os.path.exists(os.getenv('EC2_PEM_FILE'))
    pc,             \* where the client is
    agent,          \* whether HostAgent.__init__ has returned an object
    hosts,          \* self.hosts: None or a sequence of host ids
    conn,           \* per host: "new" (unopened), "open", "closed"
    op,             \* the method being (or last) called
    nfiles,         \* len(files) of the current upload call
    ci, cj,         \* host and file index of the sequential loops
    tasks,          \* the awaitables handed to gather: [host, file, st]
    firstFail,      \* index of the first task whose thread raised, or 0
    outcome,        \* "none", "returned" or "raised": how the method ended
    err,            \* the exception the method (or constructor) raised
    attempts,       \* per unit: put/run calls started on it in this call
    copied,         \* units whose put/run succeeded in this call
    ret,            \* the value the method returned
    log,            \* the units in the order their put/run began in this call
    closeAttempts,  \* per host: host.close() calls made on its connection
    unameRes,       \* results[cxn] of the group's run('uname -a')
    ncalls,         \* operation calls made so far
    ncloses         \* close() calls made so far

vars == <<scoped, hostsArg, EC2_HOSTS, pem_exists, pc, agent, hosts, conn, op,
          nfiles, ci, cj, tasks, firstFail, outcome, err, attempts, copied, ret,
          log, closeAttempts, unameRes, ncalls, ncloses>>

envVars == <<scoped, hostsArg, EC2_HOSTS, pem_exists>>
callVars == <<op, nfiles, ci, cj, tasks, firstFail, outcome, err, attempts, copied,
              ret, log>>

ZeroAttempts == [u \in Units |-> 0]

\* What a method has returned: nothing yet, None (a method that ends without
\* a return statement), or a list.
Unset == [kind |-> "unset", items |-> <<>>]
NoneValue == [kind |-> "None", items |-> <<>>]
ListValue(xs) == [kind |-> "list", items |-> xs]

\* The environment is read only when no sessions are handed in, so it is
\* left unset in the runs that hand them in. The upload and run commands
\* call HostAgent() with no argument.
Init ==
    /\ scoped \in BOOLEAN
    /\ hostsArg \in {None} \cup {Group(hs) : hs \in HostLists}
    /\ EC2_HOSTS \in HostLists
    /\ pem_exists \in BOOLEAN
    /\ (~hostsArg.none /\ Len(hostsArg.seq) > 0) => (EC2_HOSTS = <<>> /\ ~pem_exists)
    /\ scoped => hostsArg.none
    /\ pc = "start"
    /\ agent = FALSE
    /\ hosts = None
    /\ conn = [h \in HostIds |-> "new"]
    /\ op = "none"
    /\ nfiles = 0
    /\ ci = 0
    /\ cj = 0
    /\ tasks = <<>>
    /\ firstFail = 0
    /\ outcome = "none"
    /\ err = NoErr
    /\ attempts = ZeroAttempts
    /\ copied = {}
    /\ ret = Unset
    /\ log = <<>>
    /\ closeAttempts = [h \in HostIds |-> 0]
    /\ unameRes = [h \in HostIds |-> "none"]
    /\ ncalls = 0
    /\ ncloses = 0

\* Python truthiness of self.hosts: None and the empty list are falsy.
Truthy(x) == ~x.none /\ Len(x.seq) > 0

\* ------------------------------------------------------------ exceptions
ValueErrorHosts == [type |-> "ValueError",
                    msg |-> "EC2_HOSTS environment variable is not set", units |-> {}]
ValueErrorPem == [type |-> "ValueError",
                  msg |-> "No pem file is set in environment", units |-> {}]
\* SerialGroup.run raises one GroupException holding every host's result.
GroupException(failed) == [type |-> "GroupException", msg |-> "uname -a",
                           units |-> {<<h, 0>> : h \in failed}]
\* for host in None
TypeErrorNone == [type |-> "TypeError",
                  msg |-> "'NoneType' object is not iterable", units |-> {}]
\* what a single host.put / host.run raises: it carries that one unit only
UnitError(u) == [type |-> "Exception", msg |-> "put/run failed", units |-> {u}]

\* ----------------------------------------------------------- construction
\* HostAgent.__init__(hosts): keeps the sessions it is handed, which are
\* taken to be open, and connects from the environment when it is handed
\* None or an empty group.
HostAgent_init(arg) ==
    /\ pc = "start"
    /\ arg = hostsArg
    /\ hosts' = arg
    /\ IF Truthy(arg)
       THEN /\ pc' = "ready"
            /\ agent' = TRUE
            /\ conn' = [h \in HostIds |->
                          IF \E i \in 1..Len(arg.seq) : arg.seq[i] = h
                          THEN "open" ELSE conn[h]]
       ELSE /\ pc' = "get_hosts"
            /\ UNCHANGED <<agent, conn>>
    /\ UNCHANGED <<envVars, callVars, closeAttempts, unameRes, ncalls, ncloses>>

\* The constructor raises err: no object is returned to the caller.
CtorRaise(e) ==
    /\ pc' = "ctor_failed"
    /\ err' = e
    /\ outcome' = "raised"

\* Mutant: the empty value is split like any other and handed on.
get_hosts_from_env_unchecked ==
    /\ pc = "get_hosts"
    /\ pc' = "check_pem"
    /\ UNCHANGED <<err, outcome>>
    /\ UNCHANGED <<envVars, agent, hosts, conn, op, nfiles, ci, cj, tasks,
                   firstFail, attempts, copied, closeAttempts, unameRes,
                   ncalls, ncloses, ret, log>>

\* get_hosts_from_env, and the emptiness test of connect_hosts. EC2_HOSTS is
\* the variable's value split at the commas; <<>> is the unset or empty value.
get_hosts_from_env ==
    /\ pc = "get_hosts"
    /\ IF Len(EC2_HOSTS) = 0
       THEN CtorRaise(ValueErrorHosts)
       ELSE /\ pc' = "check_pem"
            /\ UNCHANGED <<err, outcome>>
    /\ UNCHANGED <<envVars, agent, hosts, conn, op, nfiles, ci, cj, tasks,
                   firstFail, attempts, copied, closeAttempts, unameRes,
                   ncalls, ncloses, ret, log>>

\* Mutant: the group is built and run before the pem file is looked for.
check_pem_late ==
    /\ pc = "check_pem"
    /\ pc' = "uname"
    /\ ci' = 1
    /\ UNCHANGED <<err, outcome>>
    /\ UNCHANGED <<envVars, agent, hosts, conn, op, nfiles, cj, tasks,
                   firstFail, attempts, copied, closeAttempts, unameRes,
                   ncalls, ncloses, ret, log>>

\* connect_hosts: the pem test, then SerialGroup(*host_urls), which opens
\* nothing yet.
check_pem ==
    /\ pc = "check_pem"
    /\ IF ~pem_exists
       THEN /\ CtorRaise(ValueErrorPem)
            /\ ci' = ci
       ELSE /\ pc' = "uname"
            /\ ci' = 1
            /\ UNCHANGED <<err, outcome>>
    /\ UNCHANGED <<envVars, agent, hosts, conn, op, nfiles, cj, tasks,
                   firstFail, attempts, copied, closeAttempts, unameRes,
                   ncalls, ncloses, ret, log>>

\* hosts.run('uname -a') on the next connection of the group: the run opens
\* the connection, and the group goes on to the next host whatever happens.
uname_step(res) ==
    /\ pc = "uname"
    /\ ci <= Len(EC2_HOSTS)
    /\ LET h == EC2_HOSTS[ci] IN
         /\ unameRes' = [unameRes EXCEPT ![h] = res]
         /\ conn' = [conn EXCEPT ![h] = IF res = "connect_fail" THEN @ ELSE "open"]
    /\ ci' = ci + 1
    /\ UNCHANGED <<envVars, pc, agent, hosts, op, nfiles, cj, tasks, firstFail,
                   outcome, err, attempts, copied, closeAttempts, ncalls, ncloses, ret, log>>

UnameFailed == {h \in HostIds : unameRes[h] \in {"connect_fail", "cmd_fail"}}

\* Mutant: the failures of the diagnostic run are ignored (warn-only) and
\* the group is handed back.
connect_done_lenient ==
    /\ pc = "uname"
    /\ ci > Len(EC2_HOSTS)
    /\ pc' = "ready"
    /\ agent' = TRUE
    /\ hosts' = Group(EC2_HOSTS)
    /\ UNCHANGED <<err, outcome>>
    /\ UNCHANGED <<envVars, conn, op, nfiles, ci, cj, tasks, firstFail,
                   attempts, copied, closeAttempts, unameRes, ncalls, ncloses, ret, log>>

\* The end of the group's run: GroupException if any host failed, else the
\* group becomes self.hosts.
connect_done ==
    /\ pc = "uname"
    /\ ci > Len(EC2_HOSTS)
    /\ IF UnameFailed # {}
       THEN /\ CtorRaise(GroupException(UnameFailed))
            /\ UNCHANGED <<agent, hosts>>
       ELSE /\ pc' = "ready"
            /\ agent' = TRUE
            /\ hosts' = Group(EC2_HOSTS)
            /\ UNCHANGED <<err, outcome>>
    /\ UNCHANGED <<envVars, conn, op, nfiles, ci, cj, tasks, firstFail,
                   attempts, copied, closeAttempts, unameRes, ncalls, ncloses, ret, log>>

Construct ==
    \/ \E arg \in {None} \cup {Group(hs) : hs \in HostLists} : HostAgent_init(arg)
    \/ get_hosts_from_env
    \/ check_pem
    \/ \E res \in {"ok", "connect_fail", "cmd_fail"} : uname_step(res)
    \/ connect_done

\* ------------------------------------------------------------ operations
N == Len(hosts.seq)

\* The start of any operation call: a fresh record of the call. The body of
\* the with block of upload / run makes one call.
BeginCall(name, n) ==
    /\ pc = "ready"
    /\ agent
    /\ ncalls < MaxCalls
    /\ scoped => ncalls = 0
    /\ ncalls' = ncalls + 1
    /\ op' = name
    /\ nfiles' = n
    /\ firstFail' = 0
    /\ attempts' = ZeroAttempts
    /\ copied' = {}
    /\ log' = <<>>

\* Mutant: an operation on a closed agent treated as one on no hosts.
RaiseTypeError_empty ==
    /\ outcome' = "returned"
    /\ err' = NoErr
    /\ pc' = "ready"
    /\ ci' = 0
    /\ cj' = 0
    /\ tasks' = <<>>

\* for host in self.hosts, with self.hosts None
RaiseTypeError ==
    /\ outcome' = "raised"
    /\ err' = TypeErrorNone
    /\ pc' = "ready"
    /\ ci' = 0
    /\ cj' = 0
    /\ tasks' = <<>>

\* The sequential loops start at the first host and file; a loop over no
\* files makes no call and returns.
BeginLoop(n) ==
    /\ tasks' = <<>>
    /\ err' = NoErr
    /\ IF n = 0
       THEN /\ outcome' = "returned"
            /\ pc' = "ready"
            /\ ci' = 0
            /\ cj' = 0
       ELSE /\ outcome' = "none"
            /\ pc' = "seq"
            /\ ci' = 1
            /\ cj' = 1

\* update_files(files, destination), files being f1..fn
update_files(n) ==
    /\ BeginCall("update_files", n)
    /\ IF hosts.none THEN RaiseTypeError ELSE BeginLoop(n)
    /\ ret' = IF outcome' = "returned" THEN NoneValue ELSE Unset
    /\ UNCHANGED <<envVars, agent, hosts, conn, closeAttempts, unameRes, ncloses>>

\* run_command(command): one run per host, the command being file 0
run_command ==
    /\ BeginCall("run_command", 0)
    /\ IF hosts.none THEN RaiseTypeError ELSE BeginLoop(1)
    /\ ret' = IF outcome' = "returned" THEN NoneValue ELSE Unset
    /\ UNCHANGED <<envVars, agent, hosts, conn, closeAttempts, unameRes, ncloses>>

\* The unit the sequential loops are at.
SeqUnit == <<hosts.seq[ci], IF op = "run_command" THEN 0 ELSE cj>>
InnerLen == IF op = "run_command" THEN 1 ELSE nfiles

\* Mutant: the loops nested the other way, file outer and host inner.
Advance_file_outer ==
    /\ err' = err
    /\ IF ci < N
       THEN /\ ci' = ci + 1
            /\ UNCHANGED <<cj, pc, outcome>>
       ELSE IF cj < InnerLen
       THEN /\ cj' = cj + 1
            /\ ci' = 1
            /\ UNCHANGED <<pc, outcome>>
       ELSE /\ outcome' = "returned"
            /\ pc' = "ready"
            /\ UNCHANGED <<ci, cj>>

\* The loops after a call that returned: next file, else next host, else
\* the method returns.
Advance ==
    /\ err' = err
    /\ IF cj < InnerLen
       THEN /\ cj' = cj + 1
            /\ UNCHANGED <<ci, pc, outcome>>
       ELSE IF ci < N
       THEN /\ ci' = ci + 1
            /\ cj' = 1
            /\ UNCHANGED <<pc, outcome>>
       ELSE /\ outcome' = "returned"
            /\ pc' = "ready"
            /\ UNCHANGED <<ci, cj>>

\* Mutant: the failure is kept for an aggregate raised after the last host,
\* and the loops go on with the next host.
Propagate_collect(u) ==
    /\ err' = [type |-> "Exception", msg |-> "put/run failed",
               units |-> err.units \cup {u}]
    /\ IF ci < N
       THEN /\ ci' = ci + 1
            /\ cj' = 1
            /\ UNCHANGED <<pc, outcome>>
       ELSE /\ outcome' = "raised"
            /\ pc' = "ready"
            /\ UNCHANGED <<ci, cj>>

\* Mutant: the failure is logged, as close() does, and the loops go on.
Propagate_swallow(u) ==
    /\ err' = err
    /\ IF cj < InnerLen
       THEN /\ cj' = cj + 1
            /\ UNCHANGED <<ci, pc, outcome>>
       ELSE IF ci < N
       THEN /\ ci' = ci + 1
            /\ cj' = 1
            /\ UNCHANGED <<pc, outcome>>
       ELSE /\ outcome' = "returned"
            /\ pc' = "ready"
            /\ UNCHANGED <<ci, cj>>

\* Mutant: a unit that failed is tried a second time before the exception
\* leaves the method.
Propagate_retry(u) ==
    IF attempts[u] = 0
    THEN /\ err' = err
         /\ UNCHANGED <<ci, cj, pc, outcome>>
    ELSE /\ outcome' = "raised"
         /\ err' = UnitError(u)
         /\ pc' = "ready"
         /\ UNCHANGED <<ci, cj>>

\* An exception of host.put / host.run is caught nowhere: it leaves the loops
\* and the method.
Propagate(u) ==
    /\ outcome' = "raised"
    /\ err' = UnitError(u)
    /\ pc' = "ready"
    /\ UNCHANGED <<ci, cj>>

\* One host.put(file, destination) or host.run(command) of the sequential
\* loops, which succeeds or raises.
seq_step(ok) ==
    /\ pc = "seq"
    /\ attempts' = [attempts EXCEPT ![SeqUnit] = @ + 1]
    /\ IF ok
       THEN /\ copied' = copied \cup {SeqUnit}
            /\ Advance
       ELSE /\ copied' = copied
            /\ Propagate(SeqUnit)
    /\ ret' = IF outcome' = "returned" THEN NoneValue ELSE ret
    /\ log' = Append(log, SeqUnit)
    /\ UNCHANGED <<envVars, agent, hosts, conn, op, nfiles, tasks, firstFail,
                   closeAttempts, unameRes, ncalls, ncloses>>

Sequential ==
    \/ \E n \in 0..MaxFiles : update_files(n)
    \/ run_command
    \/ \E ok \in BOOLEAN : seq_step(ok)

\* ------------------------------------------------------------ concurrent
\* Mutant: one coroutine per host, for the first file only.
PutCoroutines_first_file(n) ==
    [k \in 1..(IF n = 0 THEN 0 ELSE N) |->
        [host |-> hosts.seq[k], file |-> 1, st |-> "new"]]

\* The coroutines of update_files_async in the order the loops append them
\* (host outer, file inner), none started: n per host.
PutCoroutines(n) ==
    [k \in 1..(N * n) |->
        [host |-> hosts.seq[((k - 1) \div n) + 1], file |-> ((k - 1) % n) + 1,
         st |-> "new"]]

\* Mutant: the comprehension starts at the second host.
RunCoroutines_from_second ==
    [k \in 1..(N - 1) |-> [host |-> hosts.seq[k + 1], file |-> 0, st |-> "new"]]

\* The coroutines of run_command_async: one per host.
RunCoroutines ==
    [k \in 1..N |-> [host |-> hosts.seq[k], file |-> 0, st |-> "new"]]

\* asyncio.run(coro) up to the await of asyncio.gather(*tasks): gather of no
\* awaitable is already done with [].
BeginGather(cs) ==
    /\ Len(cs) <= MaxTasks
    /\ tasks' = cs
    /\ err' = NoErr
    /\ ci' = 0
    /\ cj' = 0
    /\ IF Len(cs) = 0
       THEN /\ outcome' = "returned"
            /\ pc' = "ready"
       ELSE /\ outcome' = "none"
            /\ pc' = "gather"

update_files_async(n) ==
    /\ BeginCall("update_files_async", n)
    /\ IF hosts.none THEN RaiseTypeError ELSE BeginGather(PutCoroutines(n))
    /\ ret' = IF outcome' = "returned" THEN ListValue(<<>>) ELSE Unset
    /\ UNCHANGED <<envVars, agent, hosts, conn, closeAttempts, unameRes, ncloses>>

run_command_async ==
    /\ BeginCall("run_command_async", 0)
    /\ IF hosts.none THEN RaiseTypeError ELSE BeginGather(RunCoroutines)
    /\ ret' = IF outcome' = "returned" THEN ListValue(<<>>) ELSE Unset
    /\ UNCHANGED <<envVars, agent, hosts, conn, closeAttempts, unameRes, ncloses>>

TaskIds == 1..Len(tasks)
InState(st) == {k \in TaskIds : tasks[k].st = st}
SetSt(k, st) == [tasks EXCEPT ![k].st = st]
Unit(k) == <<tasks[k].host, tasks[k].file>>
Least(S) == CHOOSE k \in S : \A j \in S : k <= j

\* The first step of a task, in the order gather scheduled them:
\* asyncio.to_thread hands host.put / host.run to the loop's executor.
to_thread ==
    /\ pc = "gather"
    /\ InState("new") # {}
    /\ tasks' = SetSt(Least(InState("new")), "queued")
    /\ UNCHANGED <<envVars, pc, agent, hosts, conn, op, nfiles, ci, cj, firstFail,
                   outcome, err, attempts, copied, closeAttempts, unameRes,
                   ncalls, ncloses, ret, log>>

\* A free worker thread takes the oldest work item not cancelled and begins
\* host.put / host.run.
worker_start ==
    /\ pc \in {"gather", "teardown"}
    /\ InState("queued") # {}
    /\ Cardinality(InState("running")) < MaxWorkers
    /\ LET k == Least(InState("queued")) IN
         /\ tasks' = SetSt(k, "running")
         /\ attempts' = [attempts EXCEPT ![Unit(k)] = @ + 1]
         /\ log' = Append(log, Unit(k))
    /\ UNCHANGED <<envVars, pc, agent, hosts, conn, op, nfiles, ci, cj, firstFail,
                   outcome, err, copied, closeAttempts, unameRes, ncalls, ncloses, ret>>

\* Mutant: a failed put rolls back the copies made so far.
worker_finish_rollback(k, ok) ==
    /\ pc \in {"gather", "teardown"}
    /\ k \in InState("running")
    /\ tasks' = SetSt(k, IF ok THEN "ok" ELSE "fail")
    /\ copied' = IF ok THEN copied \cup {Unit(k)} ELSE {}
    /\ firstFail' = IF ~ok /\ firstFail = 0 THEN k ELSE firstFail
    /\ UNCHANGED <<envVars, pc, agent, hosts, conn, op, nfiles, ci, cj, outcome,
                   err, attempts, closeAttempts, unameRes, ncalls, ncloses, ret, log>>

\* host.put / host.run returns or raises in its thread; the loop hears of
\* completions in the order they happen.
worker_finish(k, ok) ==
    /\ pc \in {"gather", "teardown"}
    /\ k \in InState("running")
    /\ tasks' = SetSt(k, IF ok THEN "ok" ELSE "fail")
    /\ copied' = IF ok THEN copied \cup {Unit(k)} ELSE copied
    /\ firstFail' = IF ~ok /\ firstFail = 0 THEN k ELSE firstFail
    /\ UNCHANGED <<envVars, pc, agent, hosts, conn, op, nfiles, ci, cj, outcome,
                   err, attempts, closeAttempts, unameRes, ncalls, ncloses, ret, log>>

\* Mutant: the method returns at the first task done (FIRST_COMPLETED).
gather_return_any ==
    /\ pc = "gather"
    /\ InState("ok") # {}
    /\ ret' = ListValue([k \in TaskIds |-> Unit(k)])
    /\ outcome' = "returned"
    /\ pc' = "teardown"
    /\ UNCHANGED <<envVars, agent, hosts, conn, op, nfiles, ci, cj, tasks, firstFail,
                   err, attempts, copied, closeAttempts, unameRes, ncalls, ncloses, log>>

\* gather (return_exceptions left False) with every task done without an
\* exception: the method returns the results.
gather_return ==
    /\ pc = "gather"
    /\ InState("ok") = TaskIds
    /\ ret' = ListValue([k \in TaskIds |-> Unit(k)])
    /\ outcome' = "returned"
    /\ pc' = "teardown"
    /\ UNCHANGED <<envVars, agent, hosts, conn, op, nfiles, ci, cj, tasks, firstFail,
                   err, attempts, copied, closeAttempts, unameRes, ncalls, ncloses, log>>

\* Mutant: every task is awaited and the failures are raised together.
gather_raise_all ==
    /\ pc = "gather"
    /\ InState("new") = {} /\ InState("queued") = {} /\ InState("running") = {}
    /\ firstFail # 0
    /\ outcome' = "raised"
    /\ err' = [type |-> "Exception", msg |-> "put/run failed",
               units |-> {Unit(k) : k \in InState("fail")}]
    /\ pc' = "teardown"
    /\ UNCHANGED <<envVars, agent, hosts, conn, op, nfiles, ci, cj, tasks, firstFail,
                   attempts, copied, closeAttempts, unameRes, ncalls, ncloses, ret, log>>

\* gather hands the first exception to its awaiter as soon as the loop runs
\* that task's callback, which is after the first step of every task.
gather_raise ==
    /\ pc = "gather"
    /\ InState("new") = {}
    /\ firstFail # 0
    /\ outcome' = "raised"
    /\ err' = UnitError(Unit(firstFail))
    /\ pc' = "teardown"
    /\ UNCHANGED <<envVars, agent, hosts, conn, op, nfiles, ci, cj, tasks, firstFail,
                   attempts, copied, closeAttempts, unameRes, ncalls, ncloses, ret, log>>

\* asyncio.run's teardown cancels the tasks still pending: a work item no
\* thread has taken is dropped, one that runs cannot be cancelled.
cancel_task(k) ==
    /\ pc = "teardown"
    /\ k \in InState("queued")
    /\ tasks' = SetSt(k, "cancelled")
    /\ UNCHANGED <<envVars, pc, agent, hosts, conn, op, nfiles, ci, cj, firstFail,
                   outcome, err, attempts, copied, closeAttempts, unameRes,
                   ncalls, ncloses, ret, log>>

\* Mutant: asyncio.run hands control back without joining the worker
\* threads.
asyncio_run_end_nojoin ==
    /\ pc = "teardown"
    /\ pc' = "ready"
    /\ UNCHANGED <<envVars, agent, hosts, conn, callVars, closeAttempts, unameRes,
                   ncalls, ncloses>>

\* asyncio.run returns or re-raises after shutdown_default_executor has
\* joined the worker threads.
asyncio_run_end ==
    /\ pc = "teardown"
    /\ InState("queued") = {}
    /\ InState("running") = {}
    /\ pc' = "ready"
    /\ UNCHANGED <<envVars, agent, hosts, conn, callVars, closeAttempts, unameRes,
                   ncalls, ncloses>>

Concurrent ==
    \/ \E n \in 0..MaxFiles : update_files_async(n)
    \/ run_command_async
    \/ to_thread
    \/ worker_start
    \/ \E k \in TaskIds, ok \in BOOLEAN : worker_finish(k, ok)
    \/ gather_return
    \/ gather_raise
    \/ \E k \in TaskIds : cancel_task(k)
    \/ asyncio_run_end

\* ----------------------------------------------------------------- close
\* close(): with self.hosts falsy nothing is closed; self.hosts = None ends
\* the call either way.
close ==
    /\ pc = "ready"
    /\ agent
    /\ ncloses < MaxCloses
    /\ op' = "close"
    /\ err' = NoErr
    /\ IF Truthy(hosts)
       THEN /\ pc' = "closing"
            /\ ci' = 1
            /\ outcome' = "none"
            /\ UNCHANGED <<hosts, ncloses>>
       ELSE /\ hosts' = None
            /\ ncloses' = ncloses + 1
            /\ outcome' = "returned"
            /\ UNCHANGED <<pc, ci>>
    /\ UNCHANGED <<envVars, agent, conn, nfiles, cj, tasks, firstFail, attempts,
                   copied, closeAttempts, unameRes, ncalls, ret, log>>

\* Mutant: host.close() outside any try: its exception leaves close().
close_step_unguarded(ok) ==
    /\ pc = "closing"
    /\ ci <= N
    /\ LET h == hosts.seq[ci] IN
         /\ closeAttempts' = [closeAttempts EXCEPT ![h] = @ + 1]
         /\ conn' = [conn EXCEPT ![h] = IF ok THEN "closed" ELSE @]
    /\ IF ok
       THEN /\ ci' = ci + 1
            /\ UNCHANGED <<pc, outcome, err>>
       ELSE /\ pc' = "ready"
            /\ outcome' = "raised"
            /\ err' = UnitError(<<hosts.seq[ci], 0>>)
            /\ ci' = ci
    /\ UNCHANGED <<envVars, agent, hosts, op, nfiles, cj, tasks, firstFail,
                   attempts, copied, unameRes, ncalls, ncloses, ret, log>>

\* try: host.close() except Exception: print(...), on the next host
close_step(ok) ==
    /\ pc = "closing"
    /\ ci <= N
    /\ LET h == hosts.seq[ci] IN
         /\ closeAttempts' = [closeAttempts EXCEPT ![h] = @ + 1]
         /\ conn' = [conn EXCEPT ![h] = IF ok THEN "closed" ELSE @]
    /\ ci' = ci + 1
    /\ UNCHANGED <<envVars, pc, agent, hosts, op, nfiles, cj, tasks, firstFail,
                   outcome, err, attempts, copied, unameRes, ncalls, ncloses, ret, log>>

\* Mutant: the sessions are closed and the group is kept.
close_end_keep ==
    /\ pc = "closing"
    /\ ci > N
    /\ hosts' = hosts
    /\ pc' = "ready"
    /\ outcome' = "returned"
    /\ ncloses' = ncloses + 1
    /\ UNCHANGED <<envVars, agent, conn, op, nfiles, ci, cj, tasks, firstFail,
                   err, attempts, copied, closeAttempts, unameRes, ncalls, ret, log>>

\* self.hosts = None after the loop
close_end ==
    /\ pc = "closing"
    /\ ci > N
    /\ hosts' = None
    /\ pc' = "ready"
    /\ outcome' = "returned"
    /\ ncloses' = ncloses + 1
    /\ UNCHANGED <<envVars, agent, conn, op, nfiles, ci, cj, tasks, firstFail,
                   err, attempts, copied, closeAttempts, unameRes, ncalls, ret, log>>

\* close() called by the client of the agent, at any time between calls.
client_close ==
    /\ ~scoped
    /\ close

\* Mutant: the agent is closed at the end of the body only, not when the
\* body raised.
HostAgent_exit_after_return ==
    /\ scoped
    /\ ncalls = 1
    /\ outcome = "returned"
    /\ close

\* __exit__ of the with block of upload / run: self.close(), once the body
\* has ended, by the end of the block, its return statement or an exception.
HostAgent_exit ==
    /\ scoped
    /\ ncalls = 1
    /\ close

Close ==
    \/ client_close
    \/ HostAgent_exit
    \/ \E ok \in BOOLEAN : close_step(ok)
    \/ close_end

Next == Construct \/ Sequential \/ Concurrent \/ Close

Spec == Init /\ [][Next]_vars

\* The upload and run commands run on by themselves: the interpreter takes
\* every step of the with block, and a put or run that began ends.
ScopedNext == scoped /\ Next
SpecScoped == Init /\ [][Next]_vars /\ WF_vars(ScopedNext)

\* ================================================================ claims
OpNames == {"update_files", "update_files_async", "run_command", "run_command_async"}
AsyncOps == {"update_files_async", "run_command_async"}

\* The error an operation on a closed agent ends with: the code has no state
\* test, the failure is the TypeError of iterating self.hosts = None.
InvalidStateError == TypeErrorNone

\* C1: after close() every call of update_files, update_files_async,
\* run_command or run_command_async fails with the invalid-state error and
\* starts no put or run on any session: no unit is attempted, none is copied,
\* no task is created, and the call is over at once.
C1_ClosedAgentRejectsOperations ==
    (agent /\ hosts.none /\ op \in OpNames) =>
        /\ outcome = "raised"
        /\ err = InvalidStateError
        /\ pc = "ready"
        /\ attempts = ZeroAttempts
        /\ copied = {}
        /\ tasks = <<>>

C1_Witness ==
    /\ agent /\ hosts.none /\ ncloses >= 1
    /\ op = "update_files_async" /\ nfiles = MaxFiles
    /\ outcome = "raised"
    /\ \E h \in HostIds : closeAttempts[h] = 1

\* A step that is a call of close().
IsCloseCall ==
    /\ pc = "ready"
    /\ op' = "close"
    /\ (ncloses' = ncloses + 1 \/ pc' = "closing")

\* C2: a call of close() on an agent that was closed before raises nothing,
\* calls close on no session and leaves the agent as the first call left it:
\* the host sequence cleared, every connection and every count of close
\* calls unchanged, the call over in the same step.
C2_SecondCloseIsNoop ==
    [][(IsCloseCall /\ ncloses >= 1) =>
          /\ hosts.none /\ hosts' = hosts
          /\ conn' = conn
          /\ closeAttempts' = closeAttempts
          /\ pc' = "ready"
          /\ outcome' = "returned"
          /\ err' = NoErr]_vars

C2_Witness ==
    /\ ncloses = 2 /\ op = "close" /\ hosts.none
    /\ \E h \in HostIds : closeAttempts[h] = 1 /\ conn[h] = "open"
    /\ \E h \in HostIds : closeAttempts[h] = 1 /\ conn[h] = "closed"

\* The sequential call that ended with the exception of one of its puts or
\* runs (self.hosts was a group when it began, and is unchanged since).
SeqFailed(name) ==
    op = name /\ outcome = "raised" /\ err.type = "Exception"

\* Position i, j of the loops is before the position ci, cj they stopped at.
Before(i, j) == i < ci \/ (i = ci /\ j < cj)

\* The hosts the error of the call names.
NamedHosts == {u[1] : u \in err.units}

GatherFailed(name) ==
    op = name /\ outcome = "raised" /\ err.type = "Exception"

FailedUnits == {Unit(k) : k \in InState("fail")}

InFlight(h) == {k \in InState("running") : tasks[k].host = h}

\* C6: at no time are two operations in flight on the same session.
C6_OneOperationPerSession ==
    \A h \in HostIds : Cardinality(InFlight(h)) <= 1

FromEnv == ~Truthy(hostsArg)
Constructed == pc \notin {"start", "get_hosts", "check_pem", "uname"}
NothingOpened ==
    /\ \A h \in HostIds : conn[h] = "new" /\ unameRes[h] = "none"
    /\ closeAttempts = [h \in HostIds |-> 0]

\* The spec's names for the two ValueErrors of construction.
ConfigError == ValueErrorHosts
CredentialError == ValueErrorPem

\* C9: construction with EC2_HOSTS unset or empty fails with the
\* configuration error, opens no session and yields no agent.
C9_EmptyHostListFails ==
    (FromEnv /\ Len(EC2_HOSTS) = 0 /\ pc \notin {"start", "get_hosts"}) =>
        /\ pc = "ctor_failed"
        /\ outcome = "raised"
        /\ err = ConfigError
        /\ ~agent
        /\ NothingOpened

C9_Witness ==
    /\ FromEnv /\ Len(EC2_HOSTS) = 0 /\ pem_exists
    /\ pc = "ctor_failed" /\ err = ConfigError

\* C10 as claimed: construction with a nonexistent pem file fails with the
\* credential error before any connection attempt.
C10_MissingPemIsCredentialError ==
    (FromEnv /\ ~pem_exists /\ Constructed) =>
        /\ pc = "ctor_failed"
        /\ err = CredentialError
        /\ ~agent
        /\ NothingOpened

\* C10 amended: construction with a nonexistent pem file fails before any
\* connection attempt, no session opened and no command run; the error is
\* the credential error when the host list is not empty, and the
\* configuration error, raised first, when it is empty.
C10_MissingPemFailsBeforeConnecting ==
    (FromEnv /\ ~pem_exists /\ Constructed) =>
        /\ pc = "ctor_failed"
        /\ outcome = "raised"
        /\ err = (IF Len(EC2_HOSTS) = 0 THEN ConfigError ELSE CredentialError)
        /\ ~agent
        /\ NothingOpened

C10_Witness ==
    /\ FromEnv /\ ~pem_exists /\ Len(EC2_HOSTS) = MaxHosts
    /\ pc = "ctor_failed" /\ err = CredentialError

\* The spec's name for the GroupException of the diagnostic run, which holds
\* the hosts that could not be opened and those on which the command failed.
ConnectionError == GroupException(UnameFailed)

\* The hosts of the configuration, as a set.
Configured == {EC2_HOSTS[i] : i \in 1..Len(EC2_HOSTS)}

\* C11: construction from the environment is all or nothing. When opening
\* a session or 'uname -a' fails on any host, construction ends with the
\* connection error and no agent; an agent exists only when the diagnostic
\* run succeeded on every configured host.
C11_ConstructionAllOrNothing ==
    FromEnv =>
        /\ (Constructed /\ UnameFailed # {}) =>
               /\ pc = "ctor_failed"
               /\ outcome = "raised"
               /\ err = ConnectionError
               /\ ~agent
        /\ agent =>
               /\ Configured # {}
               /\ \A h \in Configured : unameRes[h] = "ok"

\* One host could not be opened, the command failed on another and ran on a
\* third: construction has failed.
C11_Witness ==
    /\ FromEnv /\ pc = "ctor_failed" /\ err = ConnectionError /\ ~agent
    /\ \E h \in Configured : unameRes[h] = "connect_fail"
    /\ \E h \in Configured : unameRes[h] = "cmd_fail"
    /\ \E h \in Configured : unameRes[h] = "ok"

\* The sessions of the agent while it is open, in host-list order.
AgentHosts == IF Truthy(hostsArg) THEN hostsArg.seq ELSE EC2_HOSTS
AgentHostSet == {AgentHosts[i] : i \in 1..Len(AgentHosts)}

\* C12: close() on an open agent calls close on every session exactly once,
\* in host-list order and whichever of these calls fail: a failed close does
\* not keep the sessions after it from being closed, and close() raises
\* nothing.
C12_CloseAttemptsEverySessionOnce ==
    agent =>
        /\ \A h \in HostIds \ AgentHostSet : closeAttempts[h] = 0
        /\ (pc # "closing" /\ ncloses = 0) => \A h \in AgentHostSet : closeAttempts[h] = 0
        /\ pc = "closing" =>
               \A i \in 1..N : closeAttempts[hosts.seq[i]] = (IF i < ci THEN 1 ELSE 0)
        /\ ncloses >= 1 => \A h \in AgentHostSet : closeAttempts[h] = 1
        /\ op = "close" => (outcome # "raised" /\ err = NoErr)
        /\ (op = "close" /\ pc = "ready") => (outcome = "returned" /\ hosts.none)

\* The close of the first of three sessions failed and the last was closed.
C12_Witness ==
    /\ agent /\ ncloses = 1 /\ op = "close" /\ outcome = "returned"
    /\ Len(AgentHosts) = 3
    /\ conn[AgentHosts[1]] = "open" /\ closeAttempts[AgentHosts[1]] = 1
    /\ conn[AgentHosts[3]] = "closed" /\ closeAttempts[AgentHosts[3]] = 1

\* Every session of the agent has had its close call.
AllSessionsClosed ==
    ncloses >= 1 /\ \A h \in AgentHostSet : closeAttempts[h] = 1

\* C13: an agent acquired by the with block of upload / run is closed in the
\* end on every way out of the block: the end of the body, the return of the
\* async branch, and an exception of the operation. Every session of the
\* agent gets its close call.
C13_ScopedCleanup ==
    (scoped /\ agent) ~> AllSessionsClosed

\* The with block was left by the exception of a concurrent operation, and
\* by the return of one, and the sessions were closed.
C13_Witness ==
    /\ scoped /\ agent /\ AllSessionsClosed /\ hosts.none
    /\ op = "close" /\ pc = "ready"
    /\ firstFail # 0 /\ InState("cancelled") # {}

\* A call of run_command or run_command_async that succeeded: the command
\* ran well on every host.
RunSucceeded(name) ==
    op = name /\ outcome = "returned"

\* Every host of the agent has run the command exactly once, and well.
EachHostRanOnce ==
    /\ \A i \in 1..N : attempts[<<hosts.seq[i], 0>>] = 1
    /\ copied = {<<hosts.seq[i], 0>> : i \in 1..N}
    /\ Len(log) = N

\* The per-host results a call handed back, whatever their order.
ResultsOf(v) == {v.items[k] : k \in 1..Len(v.items)}

\* C14 as claimed: with the command succeeding on every host, run_command
\* and run_command_async both succeed, each host runs the command exactly
\* once, and the two hand back the same per-host results up to their order:
\* one result for each host.
C14_SameResultBothModes ==
    (RunSucceeded("run_command") \/ RunSucceeded("run_command_async")) =>
        /\ EachHostRanOnce
        /\ ret.kind = "list"
        /\ ResultsOf(ret) = {<<hosts.seq[i], 0>> : i \in 1..N}

\* C14 amended: with the command succeeding on every host, run_command and
\* run_command_async both succeed and each host runs the command exactly
\* once and well. run_command_async returns the list of the per-host
\* results in host-list order; run_command returns None, the per-host
\* results being dropped.
C14_SameEffectDifferentReturn ==
    /\ RunSucceeded("run_command") =>
          /\ EachHostRanOnce
          /\ ret = NoneValue
    /\ RunSucceeded("run_command_async") =>
          /\ EachHostRanOnce
          /\ ret = ListValue([i \in 1..N |-> <<hosts.seq[i], 0>>])
          /\ InState("ok") = TaskIds

\* Three hosts ran the command concurrently and the call returned.
C14_Witness ==
    /\ RunSucceeded("run_command_async") /\ pc = "ready" /\ N = 3
    /\ Len(ret.items) = 3

\* (h1,f1), (h1,f2), ..., (h1,fn), (h2,f1), ..., (hN,fn)
NestedOrder(n) ==
    [k \in 1..(N * n) |-> <<hosts.seq[((k - 1) \div n) + 1], ((k - 1) % n) + 1>>]

IsPrefix(a, b) == Len(a) <= Len(b) /\ \A k \in 1..Len(a) : a[k] = b[k]

\* C15: update_files makes its copies in a fixed nested order, host outer
\* and file inner. At every moment the puts begun so far are the first ones
\* of (h1,f1), (h1,f2), ..., (hN,fM), each begun only after the one before it
\* had returned, and when no copy fails the call returns having made exactly
\* that sequence.
C15_NestedOrder ==
    (op = "update_files" /\ ~hosts.none) =>
        /\ IsPrefix(log, NestedOrder(nfiles))
        /\ \A k \in 1..Len(log) : k < Len(log) => log[k] \in copied
        /\ outcome = "returned" =>
               /\ log = NestedOrder(nfiles)
               /\ copied = {log[k] : k \in 1..Len(log)}

\* Two files were copied to three hosts and the call returned.
C15_Witness ==
    /\ op = "update_files" /\ outcome = "returned" /\ pc = "ready"
    /\ N = 3 /\ nfiles = 2 /\ Len(log) = 6
    /\ log[2] = <<hosts.seq[1], 2>> /\ log[3] = <<hosts.seq[2], 1>>

Started(k) == tasks[k].st \in {"running", "ok", "fail"}

OneTaskPerPair ==
    /\ Len(tasks) = N * nfiles
    /\ \A i \in 1..N : \A f \in 1..nfiles :
          Cardinality({k \in TaskIds : Unit(k) = <<hosts.seq[i], f>>}) = 1

TimesBegun(u) == Cardinality({k \in 1..Len(log) : log[k] = u})

\* C17: no retries. Within one call of update_files, update_files_async,
\* run_command or run_command_async every unit of work, a host for a run and
\* a (host, file) pair for an upload, is begun at most once, whether it
\* succeeds or fails: a unit that failed is in no later position of the
\* sequence of puts and runs the call has begun.
C17_NoRetries ==
    \A u \in Units :
        /\ attempts[u] <= 1
        /\ TimesBegun(u) = attempts[u]
        /\ (op \in OpNames /\ outcome = "raised" /\ u \in err.units) =>
               attempts[u] = 1 /\ u \notin copied

\* The put of the second file on the second host failed: it was made once,
\* as the three puts before it were.
C17_Witness ==
    /\ op = "update_files" /\ pc = "ready" /\ outcome = "raised"
    /\ err = UnitError(<<2, 2>>)
    /\ attempts[<<2, 2>>] = 1 /\ attempts[<<1, 1>>] = 1 /\ Len(log) = 4

\* C18 as claimed: no session leaks from a failed construction. When
\* construction has failed, every session opened during it has been closed:
\* none is left open.
C18_NoLeakOnFailedConstruction ==
    pc = "ctor_failed" => \A h \in HostIds : conn[h] # "open"

\* The put or run of task k is with the thread pool and has not ended.
Unfinished(k) == tasks[k].st \in {"new", "queued", "running"}

====
